---- MODULE Spec2Model ----
(***************************************************************************)
(* Model of the agent scripts of sunilviyer/ai-agents:                     *)
(*   - the step workflows of the article-editor, gita-guide, stock-monitor *)
(*     and fraud-trends agents (SpecWorkflow),                             *)
(*   - the fraud-trends case-study importer, import_case_studies.py        *)
(*     (SpecImport),                                                       *)
(*   - the JSON repair heuristic fix_json_string_escaping (SpecFix).       *)
(* Every specification assigns all variables; the variables of the parts   *)
(* it does not run stay at their idle values.                              *)
(***************************************************************************)
EXTENDS Integers, Sequences, FiniteSets, TLC

VARIABLES
    \* ---- workflows ----
    agent,            \* which agent's workflow runs
    inp,              \* its input parameters and environment
    data,             \* values produced by earlier steps that later steps loop over
    wfpc,             \* "running", "returned" (normal return) or "raised"
    nextStep,         \* the step the orchestrator invokes next
    active,           \* the step currently executing, 0 when none
    iter,             \* network calls made so far by the executing step
    execution_trace,  \* step_number of every trace entry appended so far
    netCalls,         \* network calls made by the run so far
    wf_exit,          \* exit code of run_agent.main, -1 while it has none
    invoked,          \* the steps called so far, in call order
    raised_steps,     \* the steps that raised (0: generate_json_output)
    output_file,      \* the case-study file of run_agent.main and the trace in it
    \* ---- importer (import_case_studies.py) ----
    args,             \* command line and environment of main
    files,            \* the file at the path, or the directory's case_study_*.json files, sorted
    pc,               \* position of main
    runs,             \* how many times the importer has been started
    db_constructed,   \* a DatabaseConnection object exists
    connection_pool,  \* DatabaseConnection.connection_pool is not None
    attempt,          \* connection attempts made by connect
    sleeps,           \* time.sleep(retry_delay) calls made by connect
    last_outcome,     \* what the latest connection attempt met
    connect_result,   \* "none", "returned", or the exception connect raised
    valid_files,      \* import_directory: indices of the files that passed pre-validation
    invalid_files,    \* import_directory: indices of the files that failed it
    idx,              \* import_directory: position in valid_files
    successful,       \* import_directory: successful
    failed,           \* import_directory: failed
    ret,              \* (successful_count, failed_count) returned by import_directory
    exit_code,        \* what main returned, -1 while it runs
    case_studies,     \* committed rows of table case_studies (their ids)
    execution_steps,  \* committed rows of table execution_steps (id, step_number)
    conn_taken,       \* files for which a connection was requested from the pool
    db_writes,        \* files for which INSERT/DELETE statements were issued
    committed_files,  \* files whose transaction was committed in this run
    commits,          \* per id, committed imports over all runs
    statements,       \* SQL statements issued in this run
    \* ---- fix_json_string_escaping (article-editor/utils/steps.py) ----
    text,             \* the argument, a sequence of characters
    result,           \* the returned text
    fix_pc            \* "call" before the call, then the return path taken

wfVars == <<agent, inp, data, wfpc, nextStep, active, iter, execution_trace, netCalls, wf_exit,
            invoked, raised_steps, output_file>>

impVars == <<args, files, pc, runs, db_constructed, connection_pool, attempt, sleeps,
             last_outcome, connect_result, valid_files, invalid_files,
             idx, successful, failed, ret, exit_code, case_studies, execution_steps,
             conn_taken, db_writes, committed_files, commits, statements>>

fixVars == <<text, result, fix_pc>>

vars == <<wfVars, impVars, fixVars>>

(***************************************************************************)
(* Bounds                                                                  *)
(***************************************************************************)
MaxWatch   == 2    \* longest watchlist
MaxClaims  == 6    \* most claims the step-2 response of article-editor lists
MaxQueries == 2    \* most queries per category in a fraud-trends research plan
MaxFiles   == 2    \* most case_study_*.json files in the directory
MaxRuns    == 2    \* how often the importer is started on the same path
MaxSources == 21   \* most search results steps 2-4 of fraud-trends collect in a run
MaxBody    == 3    \* most characters between the head and the tail of a model response

Min(a, b) == IF a < b THEN a ELSE b

\* Idle values of the variables of a part that a specification does not run.
WfIdle ==
    /\ agent = "none"
    /\ inp = [watchlist |-> 1, context |-> FALSE, tavily |-> FALSE, anthropic |-> FALSE]
    /\ data = [claims |-> 0, events |-> 0, iq |-> 0, rq |-> 0, aq |-> 0, sources |-> 0,
               found |-> {}, total |-> 0, tier1 |-> 0, confidence |-> "none"]
    /\ wfpc = "idle"
    /\ nextStep = 0
    /\ active = 0
    /\ iter = 0
    /\ execution_trace = <<>>
    /\ netCalls = 0
    /\ wf_exit = -1
    /\ invoked = <<>>
    /\ raised_steps = {}
    /\ output_file = [state |-> "none", trace |-> <<>>]

ImpIdle ==
    /\ args = [dry_run |-> FALSE, is_file |-> FALSE, exists |-> FALSE, database_url |-> FALSE]
    /\ files = <<>>
    /\ pc = "idle"
    /\ runs = 0
    /\ db_constructed = FALSE
    /\ connection_pool = FALSE
    /\ attempt = 0
    /\ sleeps = 0
    /\ last_outcome = [kind |-> "none", stage |-> "none", msg |-> {}]
    /\ connect_result = "none"
    /\ valid_files = <<>>
    /\ invalid_files = <<>>
    /\ idx = 0
    /\ successful = 0
    /\ failed = 0
    /\ ret = <<>>
    /\ exit_code = -1
    /\ case_studies = <<>>
    /\ execution_steps = <<>>
    /\ conn_taken = {}
    /\ db_writes = {}
    /\ committed_files = {}
    /\ commits = <<>>
    /\ statements = 0

FixIdle ==
    /\ text = <<>>
    /\ result = <<>>
    /\ fix_pc = "idle"

(***************************************************************************)
(* Workflows                                                               *)
(***************************************************************************)
Agents == {"article-editor", "gita-guide", "stock-monitor", "fraud-trends"}

\* Number of steps each orchestrator runs.
ArticleSteps == 7
GitaSteps    == 6
StockSteps   == 6
FraudSteps   == 6

NumSteps(a) ==
    CASE a = "article-editor" -> ArticleSteps
      [] a = "gita-guide"     -> GitaSteps
      [] a = "stock-monitor"  -> StockSteps
      [] OTHER                -> FraudSteps

\* claims[:5] in step_3_search_references
CLAIMS_SEARCHED == 5

\* Network calls (LLM, web search, market data) step k of an agent makes when
\* it runs to its end, given the input and the results of the earlier steps.

\* article-editor without the claims[:5] slice
ArticleStepCalls_uncapped(k, in, d) ==
    CASE k = 3 -> IF in.tavily THEN d.claims ELSE 0
      [] k = 6 -> 0
      [] OTHER -> 1

\* article-editor: one llm.invoke in steps 1, 2, 4, 5, 7; step 3 searches once
\* per claim of claims[:5] when TAVILY_API_KEY is set; step 6 is local.
ArticleStepCalls(k, in, d) ==
    CASE k = 3 -> IF in.tavily THEN Min(d.claims, CLAIMS_SEARCHED) ELSE 0
      [] k = 6 -> 0
      [] OTHER -> 1

\* gita-guide: one messages.create in steps 1, 2, 5, 6; step 3 calls the LLM
\* only when guide_input.context is given; step 4 is local.
GitaStepCalls(k, in, d) ==
    CASE k = 3 -> IF in.context THEN 1 ELSE 0
      [] k = 4 -> 0
      [] OTHER -> 1

\* stock-monitor: steps 1-3 make one HTTP request per ticker; steps 4 and 6
\* call the LLM once; step 5 calls it unless there are no classified events.
StockStepCalls(k, in, d) ==
    CASE k \in {1, 2, 3} -> in.watchlist
      [] k = 5 -> IF d.events > 0 THEN 1 ELSE 0
      [] OTHER -> 1

\* fraud-trends: steps 1, 5, 6 call the LLM once; steps 2-4 search once per
\* planned query.
FraudStepCalls(k, in, d) ==
    CASE k = 2 -> d.iq
      [] k = 3 -> d.rq
      [] k = 4 -> d.aq
      [] OTHER -> 1

StepCalls(a, k, in, d) ==
    CASE a = "article-editor" -> ArticleStepCalls(k, in, d)
      [] a = "gita-guide"     -> GitaStepCalls(k, in, d)
      [] a = "stock-monitor"  -> StockStepCalls(k, in, d)
      [] OTHER                -> FraudStepCalls(k, in, d)

\* step_number written into the trace entry of step k.

\* article-editor with the skipped-search entry of step 3 numbered 2
ArticleStepNumber_skip(k, in) == IF k = 3 /\ ~in.tavily THEN 2 ELSE k

ArticleStepNumber(k, in) == k

GitaStepNumber(k) == k

StockStepNumber(k) == k

FraudStepNumber(k) == k

StepNumber(a, k, in) ==
    CASE a = "article-editor" -> ArticleStepNumber(k, in)
      [] a = "gita-guide"     -> GitaStepNumber(k)
      [] a = "stock-monitor"  -> StockStepNumber(k)
      [] OTHER                -> FraudStepNumber(k)

\* run_agent.main degrading on a failure of step 2 only
Degrades_step2(a, k) == a = "fraud-trends" /\ k = 2

\* run_agent.main degrading on a failure of step 5 as well
Degrades_step5(a, k) == a = "fraud-trends" /\ k \in {2, 3, 4, 5}

\* A failure of fraud-trends steps 2-4 is caught by run_agent.main, which goes
\* on with empty results; every other failure ends the workflow.
Degrades(a, k) == a = "fraud-trends" /\ k \in {2, 3, 4}

\* Callers other than an orchestrator: step_5_extract_findings called on its
\* own with three result lists.
DirectCalls == {"step_5_extract_findings"}

\* the entry checks without the one of step_5_extract_findings
RaisesAtEntry_searches(a, k, d) ==
    a = "fraud-trends" /\
    \/ k = 2 /\ d.iq = 0
    \/ k = 3 /\ d.rq = 0
    \/ k = 4 /\ d.aq = 0

\* Steps that raise before any network call: a fraud-trends search step whose
\* query list is empty, and step_5_extract_findings given no results at all.
RaisesAtEntry(a, k, d) ==
    \/ a = "fraud-trends" /\
         \/ k = 2 /\ d.iq = 0
         \/ k = 3 /\ d.rq = 0
         \/ k = 4 /\ d.aq = 0
    \/ a \in {"fraud-trends"} \cup DirectCalls /\ k = 5 /\ d.sources = 0

NoData == [claims |-> 0, events |-> 0, iq |-> 0, rq |-> 0, aq |-> 0, sources |-> 0,
           found |-> {}, total |-> 0, tier1 |-> 0, confidence |-> "none"]

\* utils/constants.py; percentages are counted in hundredths of a percent
MIN_SOURCES_FOR_HIGH_CONFIDENCE == 20

MIN_TIER_1_PERCENTAGE_FOR_HIGH_CONFIDENCE == 3000

\* round(n / d) to the nearest integer, ties to the even one, as round() does
RoundHalfEven(n, d) ==
    LET q == n \div d
        r == n % d
    IN IF 2 * r < d THEN q
       ELSE IF 2 * r > d THEN q + 1
       ELSE IF q % 2 = 0 THEN q ELSE q + 1

\* step 5: round((tier_1_count / total_sources) * 100, 2), in hundredths
TierPercentage(tier_1_count, total_sources) ==
    IF total_sources > 0 THEN RoundHalfEven(tier_1_count * 10000, total_sources) ELSE 0

\* the confidence rule with "or" in place of "and"
ConfidenceLevel_or(total_sources, tier_1_percentage) ==
    IF total_sources >= MIN_SOURCES_FOR_HIGH_CONFIDENCE
       \/ tier_1_percentage >= MIN_TIER_1_PERCENTAGE_FOR_HIGH_CONFIDENCE
      THEN "high"
    ELSE IF total_sources >= 10 \/ tier_1_percentage >= 2000 THEN "medium"
    ELSE "low"

\* step 6: confidence_level from the source_tier_breakdown of step 5
ConfidenceLevel(total_sources, tier_1_percentage) ==
    IF total_sources >= MIN_SOURCES_FOR_HIGH_CONFIDENCE
       /\ tier_1_percentage >= MIN_TIER_1_PERCENTAGE_FOR_HIGH_CONFIDENCE
      THEN "high"
    ELSE IF total_sources >= 10 /\ tier_1_percentage >= 2000 THEN "medium"
    ELSE "low"

\* <<total_sources, tier_1_count>> step 5 can find in the three result lists:
\* every search step that found something contributed at least one source.
SourceCounts(d) ==
    { c \in (1..MaxSources) \X (0..MaxSources) :
        c[2] <= c[1] /\ c[1] >= Cardinality(d.found) }

\* Results a returning step hands to the later steps.
StepResults(a, k, d) ==
    CASE a = "article-editor" /\ k = 2 -> {[d EXCEPT !.claims = c] : c \in 0..MaxClaims}
      [] a = "stock-monitor" /\ k = 4  -> {[d EXCEPT !.events = e] : e \in 0..1}
      [] a = "fraud-trends" /\ k = 1   ->
           {[d EXCEPT !.iq = q[1], !.rq = q[2], !.aq = q[3]] :
                q \in (0..MaxQueries) \X (0..MaxQueries) \X (0..MaxQueries)}
      [] a = "fraud-trends" /\ k \in {2, 3, 4} ->
           {[d EXCEPT !.sources = Min(d.sources + s, 1),
                      !.found = IF s = 1 THEN d.found \cup {k} ELSE d.found] : s \in 0..1}
      [] a = "fraud-trends" /\ k = 5 ->
           {[d EXCEPT !.total = c[1], !.tier1 = c[2]] : c \in SourceCounts(d)}
      [] a = "fraud-trends" /\ k = 6 ->
           {[d EXCEPT !.confidence =
                 ConfidenceLevel(d.total, TierPercentage(d.tier1, d.total))]}
      [] OTHER -> {d}

WfInputs ==
    [watchlist : 1..MaxWatch, context : BOOLEAN, tavily : BOOLEAN, anthropic : BOOLEAN]

\* no case-study file
NoFile == [state |-> "none", trace |-> <<>>]

\* What generate_json_output can meet: the models reject the data before
\* the file is opened, writing fails after it was opened, or all goes well.
JsonOutputOutcomes == {"validation_fail", "write_fail", "ok"}

WfInit ==
    /\ agent \in Agents \cup DirectCalls
    /\ inp \in WfInputs
    /\ agent # "stock-monitor" => inp.watchlist = 1
    /\ agent # "gita-guide" => inp.context = FALSE
    /\ agent \notin {"article-editor", "fraud-trends"} => inp.tavily = FALSE
    /\ agent # "fraud-trends" => inp.anthropic = TRUE
    /\ IF agent \in DirectCalls
         THEN /\ data \in {[NoData EXCEPT !.sources = n] : n \in 0..1}
              /\ nextStep = 5
         ELSE /\ data = NoData
              /\ nextStep = 1
    /\ wfpc = "running"
    /\ active = 0
    /\ iter = 0
    /\ execution_trace = <<>>
    /\ netCalls = 0
    /\ wf_exit = -1
    /\ invoked = <<>>
    /\ raised_steps = {}
    /\ output_file = NoFile
    /\ ImpIdle
    /\ FixIdle

\* run_agent.main needs both ANTHROPIC_API_KEY and TAVILY_API_KEY
KeysSet(a, in) == a = "fraud-trends" => (in.anthropic /\ in.tavily)

\* run_agent.main: an API key is not set, return 1
MissingKeyExit ==
    /\ wfpc = "running"
    /\ active = 0
    /\ nextStep = 1
    /\ ~KeysSet(agent, inp)
    /\ wfpc' = "raised"
    /\ wf_exit' = 1
    /\ UNCHANGED <<agent, inp, data, nextStep, active, iter, execution_trace, netCalls,
                   invoked, raised_steps, output_file>>
    /\ UNCHANGED <<impVars, fixVars>>

\* The orchestrator calls the next step.
StepInvoke ==
    /\ wfpc = "running"
    /\ active = 0
    /\ nextStep <= NumSteps(agent)
    /\ agent \in DirectCalls => invoked = <<>>
    /\ KeysSet(agent, inp)
    \* run_agent.main returns 1 before step 5 when steps 2-4 found no source
    /\ ~(agent = "fraud-trends" /\ nextStep = 5 /\ data.sources = 0)
    /\ active' = nextStep
    /\ iter' = 0
    /\ invoked' = Append(invoked, nextStep)
    /\ UNCHANGED <<agent, inp, data, wfpc, nextStep, execution_trace, netCalls, wf_exit,
                   raised_steps, output_file>>
    /\ UNCHANGED <<impVars, fixVars>>

\* The executing step makes one network call; a failed call inside a
\* per-item loop is caught and the loop goes on.
NetworkCall ==
    /\ wfpc = "running"
    /\ active # 0
    /\ ~RaisesAtEntry(agent, active, data)
    /\ iter < StepCalls(agent, active, inp, data)
    /\ iter' = iter + 1
    /\ netCalls' = netCalls + 1
    /\ UNCHANGED <<agent, inp, data, wfpc, nextStep, active, execution_trace, wf_exit,
                   invoked, raised_steps, output_file>>
    /\ UNCHANGED <<impVars, fixVars>>

\* The executing step returns and the orchestrator appends its trace entry.
StepReturn ==
    /\ wfpc = "running"
    /\ active # 0
    /\ ~RaisesAtEntry(agent, active, data)
    /\ iter = StepCalls(agent, active, inp, data)
    /\ data' \in StepResults(agent, active, data)
    /\ execution_trace' = Append(execution_trace, StepNumber(agent, active, inp))
    /\ nextStep' = active + 1
    /\ active' = 0
    /\ iter' = 0
    /\ UNCHANGED <<agent, inp, wfpc, netCalls, wf_exit, invoked, raised_steps, output_file>>
    /\ UNCHANGED <<impVars, fixVars>>

\* The executing step raises (missing key, API error, unparsable response).
StepRaise ==
    /\ wfpc = "running"
    /\ active # 0
    /\ IF Degrades(agent, active)
         THEN /\ nextStep' = active + 1
              /\ UNCHANGED <<wfpc, wf_exit>>
         ELSE /\ wfpc' = "raised"
              /\ wf_exit' = IF agent = "fraud-trends" THEN 1 ELSE wf_exit
              /\ UNCHANGED nextStep
    /\ raised_steps' = raised_steps \cup {active}
    /\ active' = 0
    /\ iter' = 0
    /\ UNCHANGED <<agent, inp, data, execution_trace, netCalls, invoked, output_file>>
    /\ UNCHANGED <<impVars, fixVars>>

\* run_agent.main gives up when the three searches produced nothing.
NoSourcesExit ==
    /\ wfpc = "running"
    /\ agent = "fraud-trends"
    /\ active = 0
    /\ nextStep = 5
    /\ data.sources = 0
    /\ wfpc' = "raised"
    /\ wf_exit' = 1
    /\ UNCHANGED <<agent, inp, data, nextStep, active, iter, execution_trace, netCalls,
                   invoked, raised_steps, output_file>>
    /\ UNCHANGED <<impVars, fixVars>>

\* All steps are done: the workflow function returns its output and trace.
WorkflowReturn ==
    /\ wfpc = "running"
    /\ agent # "fraud-trends"
    /\ active = 0
    /\ IF agent \in DirectCalls THEN invoked # <<>> ELSE nextStep = NumSteps(agent) + 1
    /\ wfpc' = "returned"
    /\ UNCHANGED <<agent, inp, data, nextStep, active, iter, execution_trace, netCalls,
                   wf_exit, invoked, raised_steps, output_file>>
    /\ UNCHANGED <<impVars, fixVars>>

\* run_agent.main after step 6: generate_json_output, then return 0, or
\* return 1 when it raised.
GenerateJsonOutput ==
    /\ wfpc = "running"
    /\ agent = "fraud-trends"
    /\ active = 0
    /\ nextStep = FraudSteps + 1
    /\ \E o \in JsonOutputOutcomes :
         /\ output_file' =
              CASE o = "ok"         -> [state |-> "written", trace |-> execution_trace]
                [] o = "write_fail" -> [state |-> "partial", trace |-> <<>>]
                [] OTHER            -> output_file
         /\ raised_steps' = IF o = "ok" THEN raised_steps ELSE raised_steps \cup {0}
         /\ wfpc' = IF o = "ok" THEN "returned" ELSE "raised"
         /\ wf_exit' = IF o = "ok" THEN 0 ELSE 1
    /\ UNCHANGED <<agent, inp, data, nextStep, active, iter, execution_trace, netCalls, invoked>>
    /\ UNCHANGED <<impVars, fixVars>>

WfNext ==
    \/ MissingKeyExit
    \/ StepInvoke
    \/ NetworkCall
    \/ StepReturn
    \/ StepRaise
    \/ NoSourcesExit
    \/ WorkflowReturn
    \/ GenerateJsonOutput

SpecWorkflow == WfInit /\ [][WfNext]_vars

(***************************************************************************)
(* Importer: fraud-trends/scripts/import_case_studies.py                   *)
(***************************************************************************)

\* DatabaseConnection.__init__ default, used by main
max_retries == 3

\* import_directory's default, the only value main passes
continue_on_error == TRUE

\* Optional[...] results: None is the empty tuple, a value v is <<v>>.
None == <<>>

Some(v) == <<v>>

\* Case-study files.  A file is described by what validate_json_file looks
\* at: whether it parses to a JSON object with all required fields, its id
\* ("" stands for an id that is not a UUID), its agent_slug and the
\* step_number list of its execution_trace.  The remaining fields (title,
\* input_parameters, output_result, timestamps) are well-formed.
GoodFile(id, title, trace) ==
    [json_ok |-> TRUE, id |-> id, agent_slug |-> "fraud-trends",
     title |-> title, execution_trace |-> trace]

FileUniverse ==
    { GoodFile("a", "t1", <<1, 2>>),
      GoodFile("b", "t2", <<1>>),
      GoodFile("a", "t3", <<1>>),
      [GoodFile("a", "t1", <<1, 2>>) EXCEPT !.json_ok = FALSE],
      GoodFile("", "t1", <<1>>),
      [GoodFile("b", "t2", <<1>>) EXCEPT !.agent_slug = "stock-monitor"],
      GoodFile("b", "t2", <<>>) }

Ids == {"a", "b"}

validate_json_file(f) ==
    IF ~f.json_ok THEN None
    ELSE IF f.id = "" THEN None
    ELSE IF f.agent_slug # "fraud-trends" THEN None
    ELSE IF Len(f.execution_trace) = 0 THEN None
    ELSE Some(f)

Indices(fs) == [i \in 1..Len(fs) |-> i]

\* import_directory, pre-validation phase with every file taken as valid
PreValidate_all(fs) == [valid |-> Indices(fs), invalid |-> <<>>]

\* import_directory, pre-validation phase: valid_files and invalid_files
PreValidate(fs) ==
    [valid   |-> SelectSeq(Indices(fs), LAMBDA i : validate_json_file(fs[i]) # None),
     invalid |-> SelectSeq(Indices(fs), LAMBDA i : validate_json_file(fs[i]) = None)]

\* Tables.  case_studies rows are <<id, title>>, execution_steps rows are
\* <<case_study_id, step_number>>.
HasRow(tbl, id) == \E i \in 1..Len(tbl) : tbl[i][1] = id

\* a plain INSERT without the ON CONFLICT clause
UpsertCaseStudy_plain(tbl, doc) == Append(tbl, <<doc.id, doc.title>>)

\* INSERT INTO case_studies ... ON CONFLICT (id) DO UPDATE SET ...
UpsertCaseStudy(tbl, doc) ==
    IF HasRow(tbl, doc.id)
      THEN [i \in 1..Len(tbl) |-> IF tbl[i][1] = doc.id THEN <<doc.id, doc.title>> ELSE tbl[i]]
      ELSE Append(tbl, <<doc.id, doc.title>>)

\* import_execution_steps without its DELETE
DeleteSteps_none(tbl, id) == tbl

\* DELETE FROM execution_steps WHERE case_study_id = %s
DeleteSteps(tbl, id) == SelectSeq(tbl, LAMBDA r : r[1] # id)

\* cursor.executemany(insert_query, rows)
InsertSteps(tbl, id, trace) == tbl \o [i \in 1..Len(trace) |-> <<id, trace[i]>>]

\* Connection attempts.  The text of an OperationalError is described by the
\* substrings connect looks for in it.
Messages ==
    { {}, {"timeout"}, {"could not connect"}, {"does not exist"},
      {"authentication failed"}, {"timeout", "does not exist"},
      {"could not connect", "authentication failed"} }

NoOutcome == [kind |-> "none", stage |-> "none", msg |-> {}]

\* stage: where the attempt failed, creating the pool or running SELECT 1
AttemptOutcomes ==
    {[kind |-> "ok", stage |-> "none", msg |-> {}]}
    \cup [kind : {"OperationalError"}, stage : {"pool", "select"}, msg : Messages]
    \cup [kind : {"Error", "Exception"}, stage : {"pool", "select"}, msg : {{}}]

\* the if/elif chain of connect's OperationalError handler
Categorize(msg) ==
    IF "timeout" \in msg THEN "timeout"
    ELSE IF "could not connect" \in msg THEN "unavailable"
    ELSE IF "does not exist" \in msg THEN "does_not_exist"
    ELSE IF "authentication failed" \in msg THEN "authentication"
    ELSE "other"

\* the branches of the chain that re-raise
Reraises(msg) == Categorize(msg) \in {"does_not_exist", "authentication"}

\* the loop running one attempt too many
LastAttempt_extra(n) == n >= max_retries + 1

\* for attempt in range(1, self.max_retries + 1): n was the last attempt
LastAttempt(n) == n >= max_retries

\* What connect raises after attempt number n met outcome o; "none" when it
\* goes on or returns.
ConnectRaises(o, n) ==
    CASE o.kind = "ok" -> "none"
      [] o.kind = "OperationalError" ->
           IF Reraises(o.msg) \/ LastAttempt(n) THEN "OperationalError" ELSE "none"
      [] OTHER -> o.kind

\* if attempt < self.max_retries: time.sleep(self.retry_delay)
SleepsAfter(o, n) ==
    o.kind = "OperationalError" /\ ~Reraises(o.msg) /\ n < max_retries

\* What one file's import can meet.
ImportOutcomes == {"getconn_fail", "case_study_fail", "steps_fail", "commit_fail", "ok"}

StatementsIssued(o, doc) ==
    CASE o = "getconn_fail"    -> 0
      [] o = "case_study_fail" -> 1
      [] o = "steps_fail"      -> 2
      [] OTHER                 -> 2 + Len(doc.execution_trace)

\* import_directory's return value without the invalid files
ImportDirectoryResult_noinvalid(s, f, invalid) == <<s, f>>

\* return (successful, failed + len(invalid_files), statistics)
ImportDirectoryResult(s, f, invalid) == <<s, f + Len(invalid)>>

\* main returning 0 as soon as something was imported
MainExitCode_partial(s, f) == IF f = 0 \/ s > 0 THEN 0 ELSE 1

\* return 0 if failed == 0 else 1
MainExitCode(s, f) == IF f = 0 THEN 0 ELSE 1

\* main honouring --dry-run for a single file only
DryRunMode_file(a) == a.dry_run /\ a.is_file

\* if args.dry_run:
DryRunMode(a) == a.dry_run

ImpArgs ==
    { a \in [dry_run : BOOLEAN, is_file : BOOLEAN, exists : BOOLEAN, database_url : BOOLEAN] :
        ~a.exists => ~a.is_file }

SeqsUpTo(S, n) == UNION { [1..k -> S] : k \in 0..n }

ImpFreshRun ==
    /\ pc = "start"
    /\ db_constructed = FALSE
    /\ connection_pool = FALSE
    /\ attempt = 0
    /\ sleeps = 0
    /\ last_outcome = NoOutcome
    /\ connect_result = "none"
    /\ valid_files = <<>>
    /\ invalid_files = <<>>
    /\ idx = 0
    /\ successful = 0
    /\ failed = 0
    /\ ret = <<>>
    /\ exit_code = -1
    /\ conn_taken = {}
    /\ db_writes = {}
    /\ committed_files = {}
    /\ statements = 0

ImpInit ==
    /\ args \in ImpArgs
    /\ files \in SeqsUpTo(FileUniverse, MaxFiles)
    /\ ~args.exists => files = <<>>
    /\ args.is_file => Len(files) = 1
    /\ runs = 1
    /\ ImpFreshRun
    /\ case_studies = <<>>
    /\ execution_steps = <<>>
    /\ commits = [i \in Ids |-> 0]
    /\ WfIdle
    /\ FixIdle

runVars == <<db_constructed, connection_pool, attempt, sleeps, last_outcome,
             connect_result, valid_files, invalid_files, idx, successful, failed, ret,
             conn_taken, db_writes, committed_files, statements>>

dbVars == <<case_studies, execution_steps, commits>>

\* main: the path does not exist
PathMissing ==
    /\ pc = "start"
    /\ ~args.exists
    /\ exit_code' = 1
    /\ pc' = "done"
    /\ UNCHANGED <<args, files, runs, runVars, dbVars, wfVars, fixVars>>

\* main: the --dry-run branch, validating without a database
DryRun ==
    /\ pc = "start"
    /\ args.exists
    /\ DryRunMode(args)
    /\ exit_code' =
         IF args.is_file
           THEN (IF validate_json_file(files[1]) # None THEN 0 ELSE 1)
           ELSE (IF \A i \in 1..Len(files) : validate_json_file(files[i]) # None THEN 0 ELSE 1)
    /\ pc' = "done"
    /\ UNCHANGED <<args, files, runs, runVars, dbVars, wfVars, fixVars>>

\* main: neither --database-url nor DATABASE_URL
NoDatabaseUrl ==
    /\ pc = "start"
    /\ args.exists
    /\ ~DryRunMode(args)
    /\ ~args.database_url
    /\ exit_code' = 1
    /\ pc' = "done"
    /\ UNCHANGED <<args, files, runs, runVars, dbVars, wfVars, fixVars>>

\* main: db = DatabaseConnection(database_url)
ConstructDb ==
    /\ pc = "start"
    /\ args.exists
    /\ ~DryRunMode(args)
    /\ args.database_url
    /\ db_constructed' = TRUE
    /\ pc' = "connecting"
    /\ UNCHANGED <<args, files, runs, connection_pool, attempt, sleeps, last_outcome,
                   connect_result, valid_files, invalid_files, idx,
                   successful, failed, ret, exit_code, conn_taken, db_writes,
                   committed_files, statements, dbVars, wfVars, fixVars>>

\* One iteration of connect's retry loop.  When connect raises, main's
\* handler returns 1 and db.close() runs.
ConnectAttempt ==
    /\ pc = "connecting"
    /\ \E o \in AttemptOutcomes :
         LET n == attempt + 1
             raised == ConnectRaises(o, n)
         IN /\ attempt' = n
            /\ last_outcome' = o
            /\ connection_pool' = (connection_pool \/ o.stage # "pool")
            /\ statements' = IF o.stage # "pool" THEN statements + 1 ELSE statements
            /\ sleeps' = IF SleepsAfter(o, n) THEN sleeps + 1 ELSE sleeps
            /\ connect_result' = IF o.kind = "ok" THEN "returned" ELSE raised
            /\ pc' = IF o.kind = "ok" THEN "connected"
                     ELSE IF raised # "none" THEN "done" ELSE "connecting"
            /\ exit_code' = IF o.kind # "ok" /\ raised # "none" THEN 1 ELSE exit_code
    /\ UNCHANGED <<args, files, runs, db_constructed, valid_files, invalid_files, idx,
                   successful, failed, ret, conn_taken, db_writes, committed_files,
                   dbVars, wfVars, fixVars>>

\* main: import_single_file(db, path), then db.close()
ImportSingleFile ==
    /\ pc = "connected"
    /\ args.is_file
    /\ LET case_study_data == validate_json_file(files[1])
       IN IF case_study_data = None
            THEN /\ exit_code' = 1
                 /\ UNCHANGED <<conn_taken, db_writes, committed_files, statements, dbVars>>
            ELSE \E o \in ImportOutcomes :
                   LET doc == case_study_data[1]
                   IN /\ conn_taken' = conn_taken \cup {1}
                      /\ db_writes' = IF o = "getconn_fail" THEN db_writes ELSE db_writes \cup {1}
                      /\ statements' = statements + StatementsIssued(o, doc)
                      /\ IF o = "ok"
                           THEN /\ case_studies' = UpsertCaseStudy(case_studies, doc)
                                /\ execution_steps' =
                                     InsertSteps(DeleteSteps(execution_steps, doc.id),
                                                 doc.id, doc.execution_trace)
                                /\ committed_files' = committed_files \cup {1}
                                /\ commits' = [commits EXCEPT ![doc.id] = @ + 1]
                                /\ exit_code' = 0
                           ELSE /\ exit_code' = 1
                                /\ UNCHANGED <<committed_files, dbVars>>
    /\ pc' = "done"
    /\ UNCHANGED <<args, files, runs, db_constructed, connection_pool, attempt, sleeps,
                   last_outcome, connect_result, valid_files, invalid_files,
                   idx, successful, failed, ret, wfVars, fixVars>>

\* import_directory: file discovery and the pre-validation phase
ImportDirectoryValidate ==
    /\ pc = "connected"
    /\ ~args.is_file
    /\ LET v == PreValidate(files)
       IN IF Len(files) = 0
            THEN /\ ret' = <<0, 0>>
                 /\ pc' = "summary"
                 /\ UNCHANGED <<valid_files, invalid_files, idx>>
            ELSE /\ valid_files' = v.valid
                 /\ invalid_files' = v.invalid
                 /\ IF Len(v.valid) = 0
                      THEN /\ ret' = <<0, Len(v.invalid)>>
                           /\ pc' = "summary"
                           /\ UNCHANGED idx
                      ELSE /\ idx' = 1
                           /\ pc' = "importing"
                           /\ UNCHANGED ret
    /\ UNCHANGED <<args, files, runs, db_constructed, connection_pool, attempt, sleeps,
                   last_outcome, connect_result, successful, failed,
                   exit_code, conn_taken, db_writes, committed_files, statements,
                   dbVars, wfVars, fixVars>>

\* import_directory: one iteration of the import loop
ImportDirectoryFile ==
    /\ pc = "importing"
    /\ idx <= Len(valid_files)
    /\ \E o \in ImportOutcomes :
         LET f == valid_files[idx]
             doc == files[f]
         IN /\ conn_taken' = conn_taken \cup {f}
            /\ db_writes' = IF o = "getconn_fail" THEN db_writes ELSE db_writes \cup {f}
            /\ statements' = statements + StatementsIssued(o, doc)
            /\ IF o = "ok"
                 THEN /\ case_studies' = UpsertCaseStudy(case_studies, doc)
                      /\ execution_steps' =
                           InsertSteps(DeleteSteps(execution_steps, doc.id),
                                       doc.id, doc.execution_trace)
                      /\ committed_files' = committed_files \cup {f}
                      /\ commits' = [commits EXCEPT ![doc.id] = @ + 1]
                      /\ successful' = successful + 1
                      /\ UNCHANGED failed
                 ELSE /\ failed' = failed + 1
                      /\ UNCHANGED <<successful, committed_files, dbVars>>
            /\ idx' = IF o # "ok" /\ ~continue_on_error THEN Len(valid_files) + 1 ELSE idx + 1
    /\ UNCHANGED <<args, files, pc, runs, db_constructed, connection_pool, attempt, sleeps,
                   last_outcome, connect_result, valid_files, invalid_files,
                   ret, exit_code, wfVars, fixVars>>

\* import_directory: the loop is over, build the return value
ImportDirectoryReturn ==
    /\ pc = "importing"
    /\ idx > Len(valid_files)
    /\ ret' = ImportDirectoryResult(successful, failed, invalid_files)
    /\ pc' = "summary"
    /\ UNCHANGED <<args, files, runs, db_constructed, connection_pool, attempt, sleeps,
                   last_outcome, connect_result, valid_files, invalid_files,
                   idx, successful, failed, exit_code, conn_taken, db_writes,
                   committed_files, statements, dbVars, wfVars, fixVars>>

\* main: print the summary, return the exit code, db.close()
MainReturn ==
    /\ pc = "summary"
    /\ exit_code' = MainExitCode(ret[1], ret[2])
    /\ pc' = "done"
    /\ UNCHANGED <<args, files, runs, runVars, dbVars, wfVars, fixVars>>

\* The importer is started again on the same path; the database keeps its rows.
Rerun ==
    /\ pc = "done"
    /\ runs < MaxRuns
    /\ runs' = runs + 1
    /\ pc' = "start"
    /\ db_constructed' = FALSE
    /\ connection_pool' = FALSE
    /\ attempt' = 0
    /\ sleeps' = 0
    /\ last_outcome' = NoOutcome
    /\ connect_result' = "none"
    /\ valid_files' = <<>>
    /\ invalid_files' = <<>>
    /\ idx' = 0
    /\ successful' = 0
    /\ failed' = 0
    /\ ret' = <<>>
    /\ exit_code' = -1
    /\ conn_taken' = {}
    /\ db_writes' = {}
    /\ committed_files' = {}
    /\ statements' = 0
    /\ UNCHANGED <<args, files, dbVars, wfVars, fixVars>>

ImpNext ==
    \/ PathMissing
    \/ DryRun
    \/ NoDatabaseUrl
    \/ ConstructDb
    \/ ConnectAttempt
    \/ ImportSingleFile
    \/ ImportDirectoryValidate
    \/ ImportDirectoryFile
    \/ ImportDirectoryReturn
    \/ MainReturn
    \/ Rerun

SpecImport == ImpInit /\ [][ImpNext]_vars

(***************************************************************************)
(* fix_json_string_escaping: article-editor/utils/steps.py                 *)
(***************************************************************************)

\* A text is a sequence of characters.  Each field name the patterns mention
\* stands as one element, since no pattern looks inside it; "x" is a
\* character that no pattern mentions.
Q     == "\""
BS    == "\\"
NL    == "NL"
CR    == "CR"
TAB   == "TAB"
SP    == " "
COMMA == ","
COLON == ":"
LB    == "{"
RB    == "}"

\* '\x00ESCAPED_QUOTE\x00'
ESCAPED_QUOTE == "ESCAPED_QUOTE"

\* the characters \s matches
Whitespace == {SP, NL, CR, TAB}

\* s[i], or "" past either end
At(s, i) == IF i \in 1..Len(s) THEN s[i] ELSE ""

\* \s* from position i: the first position at or after i that is not whitespace
RECURSIVE SkipWs(_, _)
SkipWs(s, i) == IF At(s, i) \in Whitespace THEN SkipWs(s, i + 1) ELSE i

\* start_pattern = r'"enhanced_article":\s*"' matched at position i: the
\* position of its last character, 0 when it does not match there
StartMatchAt(s, i) ==
    IF At(s, i) = Q /\ At(s, i + 1) = "enhanced_article" /\ At(s, i + 2) = Q
       /\ At(s, i + 3) = COLON /\ At(s, SkipWs(s, i + 4)) = Q
      THEN SkipWs(s, i + 4)
      ELSE 0

\* re.search(start_pattern, text).end(), -1 when there is no match
StartPos(s) ==
    LET hits == { i \in 1..Len(s) : StartMatchAt(s, i) # 0 }
    IN IF hits = {} THEN -1
       ELSE StartMatchAt(s, CHOOSE i \in hits : \A j \in hits : i <= j)

\* end_patterns, each named by what follows its quote
end_patterns == <<"key_learnings", "structural_changes", "added_references", "}">>

\* Length of the match of end pattern p at position i of r, 0 when it does
\* not match there.  r'"\s*,\s*"<field>"' for a field name, r'"\s*}$' under
\* re.MULTILINE for "}": $ is the end of the text or the place before a newline.
EndMatchAt(r, i, p) ==
    IF At(r, i) # Q THEN 0
    ELSE IF p = "}"
      THEN LET j == SkipWs(r, i + 1)
           IN IF At(r, j) = RB /\ (j = Len(r) \/ At(r, j + 1) = NL)
                THEN j - i + 1 ELSE 0
      ELSE LET j == SkipWs(r, i + 1)
               k == SkipWs(r, j + 1)
           IN IF At(r, j) = COMMA /\ At(r, k) = Q /\ At(r, k + 1) = p /\ At(r, k + 2) = Q
                THEN k + 2 - i + 1 ELSE 0

\* re.search(end_pat, r, re.MULTILINE): <<start(), len(group(0))>> of the
\* leftmost match, None when there is none
EndSearch(r, p) ==
    LET hits == { i \in 1..Len(r) : EndMatchAt(r, i, p) # 0 }
    IN IF hits = {} THEN None
       ELSE LET i == CHOOSE h \in hits : \A j \in hits : h <= j
            IN Some(<<i - 1, EndMatchAt(r, i, p)>>)

\* the for loop over end_patterns from pattern n on: the first pattern that
\* matches anywhere decides
RECURSIVE FirstEndMatch(_, _)
FirstEndMatch(r, n) ==
    IF n > Len(end_patterns) THEN None
    ELSE IF EndSearch(r, end_patterns[n]) # None THEN EndSearch(r, end_patterns[n])
    ELSE FirstEndMatch(r, n + 1)

\* text[a:b] of Python, a and b counted from 0
Slice(s, a, b) == SubSeq(s, a + 1, b)

\* s.replace(old, new): the occurrences of old, taken from the left and
\* without overlap, become new
RECURSIVE Replace(_, _, _)
Replace(s, old, new) ==
    IF Len(s) < Len(old) THEN s
    ELSE IF SubSeq(s, 1, Len(old)) = old
      THEN new \o Replace(SubSeq(s, Len(old) + 1, Len(s)), old, new)
      ELSE <<s[1]>> \o Replace(Tail(s), old, new)

\* the six replace calls on content
FixContent(content) ==
    LET marked   == Replace(content, <<BS, Q>>, <<ESCAPED_QUOTE>>)
        quoted   == Replace(marked, <<Q>>, <<BS, Q>>)
        restored == Replace(quoted, <<ESCAPED_QUOTE>>, <<BS, Q>>)
        no_nl    == Replace(restored, <<NL>>, <<BS, "n">>)
        no_cr    == Replace(no_nl, <<CR>>, <<BS, "r">>)
    IN Replace(no_cr, <<TAB>>, <<BS, "t">>)

\* end_match of the loop over end_patterns, searched in text[start_pos:]
EndMatch(t) == FirstEndMatch(Slice(t, StartPos(t), Len(t)), 1)

\* end_pos = start_pos + end_match.start()
EndPos(t) == StartPos(t) + EndMatch(t)[1][1]

\* content = text[start_pos:end_pos]
Content(t) == Slice(t, StartPos(t), EndPos(t))

\* the rebuild leaving matched_ending out
fix_json_string_escaping_noending(t) ==
    IF StartPos(t) = -1 THEN t
    ELSE IF EndMatch(t) = None THEN t
    ELSE LET start_pos      == StartPos(t)
             end_pos        == EndPos(t)
             matched_ending == Slice(t, end_pos, end_pos + EndMatch(t)[1][2])
             content        == Content(t)
             fixed_content  == FixContent(content)
         IN Slice(t, 0, start_pos) \o fixed_content
              \o Slice(t, start_pos + Len(content) + Len(matched_ending), Len(t))

\* def fix_json_string_escaping(text)
fix_json_string_escaping(t) ==
    IF StartPos(t) = -1 THEN t
    ELSE IF EndMatch(t) = None THEN t
    ELSE LET start_pos      == StartPos(t)
             end_pos        == EndPos(t)
             matched_ending == Slice(t, end_pos, end_pos + EndMatch(t)[1][2])
             content        == Content(t)
             fixed_content  == FixContent(content)
         IN Slice(t, 0, start_pos) \o fixed_content \o matched_ending
              \o Slice(t, start_pos + Len(content) + Len(matched_ending), Len(t))

\* Model responses: a head that opens the first field's string value, a body
\* of up to MaxBody characters, and a tail from the closing quote on.
FixHeads ==
    { <<LB, Q, "enhanced_article", Q, COLON, SP, Q>>,
      <<LB, Q, "enhanced_article", Q, COLON, Q>>,
      <<LB, Q, "summary", Q, COLON, SP, Q>> }

FixBodyChars == {"x", Q, BS, NL, CR, TAB}

FixTails ==
    { <<Q, COMMA, SP, Q, "key_learnings", Q, COLON, SP, "x", RB>>,
      <<Q, COMMA, Q, "structural_changes", Q, COLON, Q, "x", Q, COMMA,
        Q, "key_learnings", Q, COLON, "x", RB>>,
      <<Q, COMMA, NL, Q, "added_references", Q, COLON, "x", RB>>,
      <<Q, RB>>,
      <<Q, NL, RB, NL>>,
      <<Q, COMMA, Q, "summary", Q, COLON, "x", RB>> }

FixInputs ==
    { h \o b \o t : h \in FixHeads, b \in SeqsUpTo(FixBodyChars, MaxBody), t \in FixTails }

FixInit ==
    /\ text \in FixInputs
    /\ result = <<>>
    /\ fix_pc = "call"
    /\ WfIdle
    /\ ImpIdle

\* if not start_match: return text
FixNoStart ==
    /\ fix_pc = "call"
    /\ StartPos(text) = -1
    /\ result' = fix_json_string_escaping(text)
    /\ fix_pc' = "no_start"
    /\ UNCHANGED <<text, wfVars, impVars>>

\* if end_pos is None: return text
FixNoEnd ==
    /\ fix_pc = "call"
    /\ StartPos(text) # -1
    /\ EndMatch(text) = None
    /\ result' = fix_json_string_escaping(text)
    /\ fix_pc' = "no_end"
    /\ UNCHANGED <<text, wfVars, impVars>>

\* the value was found: return the rebuilt text
FixRepair ==
    /\ fix_pc = "call"
    /\ StartPos(text) # -1
    /\ EndMatch(text) # None
    /\ result' = fix_json_string_escaping(text)
    /\ fix_pc' = "fixed"
    /\ UNCHANGED <<text, wfVars, impVars>>

FixNext ==
    \/ FixNoStart
    \/ FixNoEnd
    \/ FixRepair

SpecFix == FixInit /\ [][FixNext]_vars

(***************************************************************************)
(* Claims                                                                  *)
(***************************************************************************)

\* Number of steps claim C1 states for each orchestrator.
C1Steps(a) == IF a = "article-editor" THEN 7 ELSE 6

\* C1: in run_article_editor_workflow (7 steps), run_gita_guide_workflow (6)
\* and run_stock_monitor_workflow (6) a step is executing only when all the
\* steps before it have returned and left their trace entries, and a workflow
\* that returned normally produced exactly the entries 1, 2, ..., N in order.
C1_StepOrderAndTrace ==
    agent \in {"article-editor", "gita-guide", "stock-monitor"} =>
        /\ active # 0 => execution_trace = [i \in 1..(active - 1) |-> i]
        /\ wfpc = "returned" => execution_trace = [i \in 1..C1Steps(agent) |-> i]

C1_Witness ==
    /\ agent = "article-editor"
    /\ wfpc = "returned"
    /\ Len(execution_trace) = 7
    /\ inp.tavily = FALSE

\* C2 as stated: no run of any agent makes more than eight network calls.
C2_AtMostEightCalls == netCalls <= 8

\* Largest number of network calls the run can have made, from its input and
\* the lists its steps produced.
CallBound ==
    CASE agent = "article-editor" -> 5 + Min(data.claims, 5)
      [] agent = "gita-guide"     -> 5
      [] agent = "stock-monitor"  -> 3 * inp.watchlist + 3
      [] OTHER                    -> 3 + data.iq + data.rq + data.aq

\* C2 (amended): the number of network calls of a run is bounded by its input:
\* 5 + min(claims, 5) for article-editor, 5 for gita-guide,
\* 3 * len(watchlist) + 3 for stock-monitor and 3 + the number of planned
\* queries for fraud-trends.
C2_CallsBoundedByInput == netCalls <= CallBound

C2_Witness ==
    /\ wfpc = "returned"
    /\ agent = "stock-monitor"
    /\ inp.watchlist = 2
    /\ netCalls = 9

\* Rows of a table that belong to case study id.
RowsOf(tbl, id) == SelectSeq(tbl, LAMBDA r : r[1] = id)

IsValid(i) == validate_json_file(files[i]) # None

\* C3: when import_directory has returned, successful_count + failed_count is
\* the number of discovered files, every file that passed pre-validation was
\* counted once as successful or failed, and each of them was attempted (a
\* connection was requested for it) whatever failed before it.
C3_EveryFileCounted ==
    ret # <<>> =>
        /\ ret[1] + ret[2] = Len(files)
        /\ successful + failed = Len(valid_files)
        /\ ret[1] = Cardinality(committed_files)
        /\ conn_taken = {valid_files[i] : i \in 1..Len(valid_files)}

\* the first file's import failed and the second one was still committed
C3_Witness ==
    /\ ret = <<1, 1>>
    /\ Len(valid_files) = 2
    /\ failed = 1
    /\ committed_files = {2}

\* C4: connect makes at most max_retries attempts; it returns only if the
\* latest attempt created the pool and its SELECT 1 succeeded; when it is over
\* without returning it has raised; and after max_retries attempts that all
\* ended in a retried error it has raised OperationalError.
C4_ConnectBounded ==
    /\ attempt <= 3
    /\ connect_result = "returned" => (last_outcome.kind = "ok" /\ connection_pool)
    /\ (attempt > 0 /\ pc # "connecting" /\ connect_result # "returned")
          => connect_result \in {"OperationalError", "Error", "Exception"}
    /\ (attempt = 3 /\ last_outcome.kind = "OperationalError")
          => (connect_result = "OperationalError" /\ pc = "done" /\ exit_code = 1)
    /\ (connect_result = "none" /\ attempt > 0) => pc = "connecting"

\* three attempts met retried errors and connect gave up
C4_Witness ==
    /\ attempt = 3
    /\ sleeps = 2
    /\ connect_result = "OperationalError"
    /\ last_outcome.msg = {"timeout"}

\* What claim C5 calls errors that are never retried.
FatalByClaim(o) ==
    \/ o.kind \in {"Error", "Exception"}
    \/ o.kind = "OperationalError" /\
         ("does not exist" \in o.msg \/ "authentication failed" \in o.msg)

\* C5: an error reporting that the database does not exist or that
\* authentication failed, a non-operational psycopg2.Error or any other
\* exception is re-raised on the attempt where it occurs, without a sleep and
\* without another attempt.
C5_FatalErrorsNeverRetried ==
    /\ FatalByClaim(last_outcome) =>
          /\ pc # "connecting"
          /\ connect_result = last_outcome.kind
          /\ sleeps = attempt - 1

\* C6: a connection is requested and INSERT/DELETE statements are issued only
\* for files that validate_json_file accepted.
C6_NoWriteForRejected ==
    \A i \in conn_taken \cup db_writes : IsValid(i)

\* a directory with a rejected file, imported to the end
C6_Witness ==
    /\ pc = "done"
    /\ ~args.is_file
    /\ db_writes # {}
    /\ \E i \in 1..Len(files) : ~IsValid(i)

\* C7: however often case studies were imported and committed, the database
\* holds for each imported id exactly one case_studies row and exactly the
\* execution_steps rows of one valid file with that id (the state one import
\* of that file leaves), and nothing for ids never committed.
C7_ReimportIdempotent ==
    runs > 0 =>
    \A id \in Ids :
        LET rows  == RowsOf(case_studies, id)
            steps == RowsOf(execution_steps, id)
        IN IF commits[id] = 0
             THEN rows = <<>> /\ steps = <<>>
             ELSE /\ Len(rows) = 1
                  /\ \E i \in 1..Len(files) :
                        /\ IsValid(i)
                        /\ files[i].id = id
                        /\ rows[1][2] = files[i].title
                        /\ steps = [k \in 1..Len(files[i].execution_trace) |->
                                      <<id, files[i].execution_trace[k]>>]

\* the same file was imported and committed by two runs in succession
C7_Witness ==
    /\ args.is_file
    /\ runs = 2
    /\ pc = "done"
    /\ IsValid(1)
    /\ commits[files[1].id] = 2
    /\ Len(files[1].execution_trace) = 2
    /\ Len(execution_steps) = 2

\* C8: with --dry-run main constructs no DatabaseConnection, makes no
\* connection attempt, issues no statement and leaves the tables alone.
C8_DryRunNoDatabase ==
    (runs > 0 /\ args.dry_run) =>
        /\ ~db_constructed
        /\ ~connection_pool
        /\ attempt = 0
        /\ statements = 0
        /\ conn_taken = {} /\ db_writes = {}
        /\ case_studies = <<>> /\ execution_steps = <<>>

\* a dry run over a directory with DATABASE_URL set has finished
C8_Witness ==
    /\ args.dry_run
    /\ args.database_url
    /\ ~args.is_file
    /\ Len(files) = 2
    /\ pc = "done"
    /\ exit_code = 0

\* C9: for a directory without --dry-run, main returns 0 exactly when connect
\* returned and every discovered file passed validation and was committed;
\* otherwise it returns 1.
C9_DirectoryExitCode ==
    (pc = "done" /\ args.exists /\ ~args.is_file /\ ~args.dry_run) =>
        /\ exit_code \in {0, 1}
        /\ exit_code = 0 <=>
             /\ connect_result = "returned"
             /\ \A i \in 1..Len(files) : IsValid(i) /\ i \in committed_files

\* one of two files committed, the other failed: exit code 1
C9_Witness ==
    /\ pc = "done"
    /\ ~args.is_file
    /\ ~args.dry_run
    /\ Len(files) = 2
    /\ successful = 1
    /\ failed = 1
    /\ exit_code = 1

\* The enhanced_article value in the output: what stands between the opening
\* quote and the closing quote the function found.
OutputValue == Slice(result, StartPos(text), Len(result) - (Len(text) - EndPos(text)))

\* JSON reading of a string body from position i on: esc tells that the
\* character at i follows an unescaped backslash.  TRUE when a quote ends
\* the string before the body is over.
RECURSIVE EndsEarly(_, _, _)
EndsEarly(v, i, esc) ==
    IF i > Len(v) THEN FALSE
    ELSE IF esc THEN EndsEarly(v, i + 1, FALSE)
    ELSE IF v[i] = BS THEN EndsEarly(v, i + 1, TRUE)
    ELSE IF v[i] = Q THEN TRUE
    ELSE EndsEarly(v, i + 1, FALSE)

QuotePositions(s) == SelectSeq(Indices(s), LAMBDA i : s[i] = Q)

\* number of backslashes standing directly before position i
RECURSIVE BackslashesBefore(_, _)
BackslashesBefore(s, i) ==
    IF At(s, i - 1) = BS THEN 1 + BackslashesBefore(s, i - 1) ELSE 0

\* C10: when the value is found, the value in the output has no raw newline,
\* carriage return or tab, no double quote that ends the JSON string early,
\* and a quote that was escaped in the input keeps exactly the backslashes
\* it had.
C10_ValueFullyEscaped ==
    fix_pc = "fixed" =>
        LET v  == OutputValue
            qc == QuotePositions(Content(text))
            qv == QuotePositions(v)
        IN /\ \A i \in 1..Len(v) : v[i] \notin {NL, CR, TAB}
           /\ ~EndsEarly(v, 1, FALSE)
           /\ Len(qv) = Len(qc)
           /\ \A k \in 1..Len(qc) :
                BackslashesBefore(Content(text), qc[k]) % 2 = 1
                  => BackslashesBefore(v, qv[k]) = BackslashesBefore(Content(text), qc[k])

\* the text holds an opening of an "enhanced_article" string value
HasOpening(t) == \E i \in 1..Len(t) : StartMatchAt(t, i) # 0

\* some end pattern matches after that opening
HasEnding(t) ==
    \E n \in 1..Len(end_patterns) :
        EndSearch(Slice(t, StartPos(t), Len(t)), end_patterns[n]) # None

\* C11: without an opening of the enhanced_article value, or without a match
\* of an end pattern after it, the function returns its input; when it
\* repairs, the output agrees with the input on every character up to and
\* including the opening quote and on every character from the closing quote on.
C11_FrameKept ==
    fix_pc # "call" =>
        IF ~HasOpening(text) \/ ~HasEnding(text)
          THEN result = text
          ELSE LET before == StartPos(text)
                   after  == Len(text) - EndPos(text)
               IN /\ Len(result) >= before + after
                  /\ SubSeq(result, 1, before) = SubSeq(text, 1, before)
                  /\ SubSeq(result, Len(result) - after + 1, Len(result))
                       = SubSeq(text, EndPos(text) + 1, Len(text))

\* a repair that changed the value, between a head and a tail that stayed
C11_Witness ==
    /\ fix_pc = "fixed"
    /\ result # text
    /\ Content(text) = <<"x", Q, NL>>
    /\ Len(text) - EndPos(text) > 2

\* C12: whenever run_agent.main of fraud-trends returns 0, the execution
\* trace written into the case study holds one entry for each of the six
\* steps, numbered 1 to 6 in order.
C12_ReturnZeroHasSixEntries ==
    (agent = "fraud-trends" /\ wf_exit = 0) =>
        /\ output_file.state = "written"
        /\ output_file.trace = [i \in 1..6 |-> i]

\* C13: a failure of fraud-trends step 2, 3 or 4 does not abort
\* run_agent.main.  The failed step leaves no results and no trace entry, the
\* steps after it are still reached, and main returns 1 with only search
\* steps failed just when no search step produced a source.
C13_SearchFailureDegrades ==
    agent = "fraud-trends" =>
        /\ \A k \in raised_steps \cap {2, 3, 4} :
             /\ k \notin data.found
             /\ \A i \in 1..Len(execution_trace) : execution_trace[i] # k
             /\ nextStep > k
        /\ (wf_exit = 1 /\ raised_steps \subseteq {2, 3, 4}) => data.found = {}
        /\ (data.found # {} /\ raised_steps \cap {5, 6} = {} /\ nextStep = 7)
             => invoked = <<1, 2, 3, 4, 5, 6>>

\* steps 2 and 3 failed, step 4 found sources, and main returned 0
C13_Witness ==
    /\ agent = "fraud-trends"
    /\ raised_steps = {2, 3}
    /\ data.found = {4}
    /\ invoked = <<1, 2, 3, 4, 5, 6>>
    /\ wf_exit = 0

\* C14: when fraud-trends step 1, 5 or 6 raises, run_agent.main returns 1 at
\* once: the failed step is the last step invoked, generate_json_output is
\* not called and no case-study file exists; when generate_json_output
\* raises, main returns 1 as well.
C14_CriticalFailureReturnsOne ==
    agent = "fraud-trends" =>
        /\ \A k \in raised_steps \cap {1, 5, 6} :
             /\ wfpc = "raised"
             /\ wf_exit = 1
             /\ invoked # <<>> /\ invoked[Len(invoked)] = k
             /\ 0 \notin raised_steps
             /\ output_file = NoFile
        /\ 0 \in raised_steps => (wfpc = "raised" /\ wf_exit = 1)

\* step 5 raised after four steps left their entries
C14_Witness ==
    /\ agent = "fraud-trends"
    /\ raised_steps = {5}
    /\ execution_trace = <<1, 2, 3, 4>>
    /\ invoked = <<1, 2, 3, 4, 5>>
    /\ wf_exit = 1

\* C15: findings extraction never runs on zero sources.  In run_agent.main,
\* when steps 2 to 4 are over without a source, step 5 is not invoked and main
\* can only return 1; step_5_extract_findings called with three empty lists
\* makes no LLM call, never returns, and ends by raising.
C15_NoExtractionOnZeroSources ==
    /\ (agent = "fraud-trends" /\ data.sources = 0) =>
          /\ \A i \in 1..Len(invoked) : invoked[i] < 5
          /\ wf_exit \in {-1, 1}
          /\ nextStep <= 5
          /\ (nextStep = 5 /\ wfpc # "running") => (wfpc = "raised" /\ wf_exit = 1)
    /\ (agent \in DirectCalls /\ data.sources = 0) =>
          /\ netCalls = 0
          /\ execution_trace = <<>>
          /\ wfpc # "returned"
          /\ (invoked # <<>> /\ active = 0) => (wfpc = "raised" /\ raised_steps = {5})

\* main returned 1 at the check after the searches, one of which had failed
C15_Witness ==
    /\ agent = "fraud-trends"
    /\ data.sources = 0
    /\ invoked = <<1, 2, 3, 4>>
    /\ raised_steps = {3}
    /\ nextStep = 5
    /\ wf_exit = 1

\* C16: once step_6_synthesize_report has returned, confidence_level is
\* "high" exactly when total_sources >= 20 and tier_1_percentage >= 30,
\* "medium" exactly when that fails but total_sources >= 10 and
\* tier_1_percentage >= 20, and "low" otherwise; with fewer than 10 sources
\* it is "low".
C16_ConfidenceThresholds ==
    (agent = "fraud-trends" /\ nextStep = 7) =>
        LET n    == data.total
            pct  == TierPercentage(data.tier1, data.total)
            high == n >= 20 /\ pct >= 3000
            med  == ~high /\ n >= 10 /\ pct >= 2000
        IN /\ data.confidence \in {"high", "medium", "low"}
           /\ data.confidence = "high" <=> high
           /\ data.confidence = "medium" <=> med
           /\ data.confidence = "low" <=> (~high /\ ~med)
           /\ n < 10 => data.confidence = "low"
           /\ output_file.state = "written" => n > 0

\* twenty sources of which six are tier 1: exactly 30 percent, "high"
C16_Witness ==
    /\ agent = "fraud-trends"
    /\ nextStep = 7
    /\ data.total = 20
    /\ data.tier1 = 6
    /\ data.confidence = "high"
    /\ wf_exit = 0

\* json.loads on a model response.  A response is an object whose fields
\* are strings or the value "x"; Invalid stands for JSONDecodeError.
Invalid == <<>>

\* the character an escape sequence stands for, "" when there is no such escape
Unescape(c) ==
    CASE c = Q   -> Q
      [] c = BS  -> BS
      [] c = "n" -> NL
      [] c = "r" -> CR
      [] c = "t" -> TAB
      [] OTHER   -> ""

\* A string body from position i on, acc being what was read of it:
\* <<characters, position after the closing quote>>, or Invalid.
RECURSIVE StringFrom(_, _, _)
StringFrom(t, i, acc) ==
    IF i > Len(t) THEN Invalid
    ELSE IF t[i] = Q THEN <<acc, i + 1>>
    ELSE IF t[i] = BS
      THEN IF Unescape(At(t, i + 1)) = "" THEN Invalid
           ELSE StringFrom(t, i + 2, Append(acc, Unescape(t[i + 1])))
    ELSE IF t[i] \in {NL, CR, TAB} THEN Invalid
    ELSE StringFrom(t, i + 1, Append(acc, t[i]))

\* A value at position i: <<<<kind, characters>>, position after it>>, or Invalid.
ValueAt(t, i) ==
    IF At(t, i) = Q
      THEN LET str == StringFrom(t, i + 1, <<>>)
           IN IF str = Invalid THEN Invalid ELSE <<<<"string", str[1]>>, str[2]>>
    ELSE IF At(t, i) = "x" THEN <<<<"other", <<"x">>>>, i + 1>>
    ELSE Invalid

\* The fields of an object from position i on (after "{" or ","), acc being
\* the <<name, value>> pairs read so far: all the pairs, or Invalid.
RECURSIVE FieldsFrom(_, _, _)
FieldsFrom(t, i, acc) ==
    LET n == SkipWs(t, i)
        name == IF At(t, n) = Q THEN StringFrom(t, n + 1, <<>>) ELSE Invalid
    IN IF name = Invalid THEN Invalid
       ELSE LET c == SkipWs(t, name[2])
                val == IF At(t, c) = COLON THEN ValueAt(t, SkipWs(t, c + 1)) ELSE Invalid
            IN IF val = Invalid THEN Invalid
               ELSE LET e == SkipWs(t, val[2])
                        pairs == Append(acc, <<name[1], val[1]>>)
                    IN IF At(t, e) = COMMA THEN FieldsFrom(t, e + 1, pairs)
                       ELSE IF At(t, e) = RB /\ SkipWs(t, e + 1) = Len(t) + 1 THEN pairs
                       ELSE Invalid

\* the object as name/value pairs, a repeated name keeping its last value
Parse(t) ==
    LET first == SkipWs(t, 1)
        pairs == IF At(t, first) = LB THEN FieldsFrom(t, first + 1, <<>>) ELSE Invalid
    IN IF pairs = Invalid THEN Invalid
       ELSE << { pairs[i] : i \in { j \in 1..Len(pairs) :
                     \A k \in (j + 1)..Len(pairs) : pairs[k][1] # pairs[j][1] } } >>

\* C17: when the response is valid JSON already, parsing the output of
\* fix_json_string_escaping gives the same object as parsing its input.
C17_ValidJsonKeepsMeaning ==
    (fix_pc # "call" /\ Parse(text) # Invalid) => Parse(result) = Parse(text)

====
